---- MODULE Spec2Model ----
(***************************************************************************)
(* Large Neighborhood Search engine of src/environments/lns_environment.py *)
(* (LargeNeighborhoodSearch, LNSEnvironment, SimAnnealingLNSEnvironment).  *)
(*                                                                         *)
(* A Solution is abstracted to what the engine reads of it: its cost().    *)
(* verify() is external: on an accepted incumbent it passes or raises.     *)
(* Wall-clock time is an integer number of ticks; it advances while the    *)
(* destroy/repair pair runs.                                               *)
(* Python lists are 0-indexed, the sequences here are 1-indexed.           *)
(***************************************************************************)
EXTENDS Integers, Sequences, FiniteSets, TLC

(* ------------------------------ bounds -------------------------------- *)
\* largest cost() a solution can have
MaxCost == 2
\* longest duration, in ticks, of one destroy+repair application
MaxDur == 1
\* largest ordinary budget (max_steps, time_limit) a caller passes to solve
MaxBudget == 2

(* -------------------------- program constants ------------------------- *)
\* EMA_ALPHA = 0.2, kept as the fraction EMA_ALPHA_NUM / EMA_ALPHA_DEN
EMA_ALPHA_NUM == 1
EMA_ALPHA_DEN == 5
\* t_min = 10
T_MIN == 10
\* INF, the "unbounded" budget sentinel imported from
\* environments.vrp_environment: a finite number above every ordinary budget
INF == 3
\* Python's None, for a budget the caller omits and for fields not yet set
None == 0 - 1

Costs == 0..MaxCost
Durations == 0..MaxDur
\* what a caller passes for max_steps / time_limit
Budgets == (1..MaxBudget) \cup {INF} \cup {None}
\* constructor arguments
NeighborhoodSizes == {1, 2}
OperatorCounts == {1, 2}
ReheatingCounts == {1, 2}
\* reset_percentage, in percent (default 0.8)
ResetPercentages == {80, 100}
\* how the destroy/repair pairs behave: 0 for arbitrary procedures, d > 0 for
\* deterministic ones that lower the cost of every candidate by d
LoweringAmounts == {0, 1, 2}

Solutions == [cost : Costs]
NoSolution == [cost |-> None]

Abs(a) == IF a < 0 THEN 0 - a ELSE a

RECURSIVE GCD(_, _)
GCD(a, b) == IF b = 0 THEN a ELSE GCD(b, a % b)

(* ---------------- performance scores: IEEE-754 doubles ---------------- *)
\* finite values are exact fractions n/d in lowest terms; the three special
\* values are +inf, -inf and NaN
Fin(n, d) == [k |-> "fin", n |-> n, d |-> d]
PosInf == [k |-> "inf", n |-> 1, d |-> 0]
NegInf == [k |-> "ninf", n |-> 0 - 1, d |-> 0]
NaN == [k |-> "nan", n |-> 0, d |-> 0]

Norm(n, d) == LET g == GCD(Abs(n), d) IN Fin(n \div g, d \div g)

IsFinite(s) == s.k = "fin"

\* s * (an/ad) for a positive factor an/ad
Scale(s, an, ad) == IF IsFinite(s) THEN Norm(s.n * an, s.d * ad) ELSE s

\* a + b
Add(a, b) ==
    IF a.k = "nan" \/ b.k = "nan" THEN NaN
    ELSE IF IsFinite(a) /\ IsFinite(b) THEN Norm(a.n * b.d + b.n * a.d, a.d * b.d)
    ELSE IF IsFinite(a) THEN b
    ELSE IF IsFinite(b) THEN a
    ELSE IF a.k = b.k THEN a
    ELSE NaN

Rank(s) == IF s.k = "ninf" THEN 0 ELSE IF s.k = "fin" THEN 1 ELSE 2

\* a < b, for values that are not NaN
Less(a, b) ==
    \/ Rank(a) < Rank(b)
    \/ IsFinite(a) /\ IsFinite(b) /\ a.n * b.d < b.n * a.d

\* numpy division (current_cost - new_cost) / lns_iter_duration
NumpyDivide(diff, dur) ==
    IF dur > 0 THEN Norm(diff, dur)
    ELSE IF diff > 0 THEN PosInf
    ELSE IF diff < 0 THEN NegInf
    ELSE NaN

\* np.argmax: the first NaN when there is one, else the first maximum
ArgMax(perf) ==
    IF \E i \in 1..Len(perf) : perf[i].k = "nan"
    THEN CHOOSE i \in 1..Len(perf) :
            /\ perf[i].k = "nan"
            /\ \A j \in 1..(i - 1) : perf[j].k # "nan"
    ELSE CHOOSE i \in 1..Len(perf) :
            /\ \A j \in 1..Len(perf) : ~Less(perf[i], perf[j])
            /\ \A j \in 1..(i - 1) : Less(perf[j], perf[i])

\* np.argmin over the neighborhood costs: the first minimum
ArgMin(costs) ==
    CHOOSE i \in 1..Len(costs) :
        /\ \A j \in 1..Len(costs) : costs[i] <= costs[j]
        /\ \A j \in 1..(i - 1) : costs[j] > costs[i]

\* min(self.neighborhood_costs)
MinCost(costs) == costs[ArgMin(costs)]

\* [sol.cost() for sol in self.neighborhood]
CostsOf(nb) == [i \in 1..Len(nb) |-> nb[i].cost]

\* 4 * np.percentile(costs, q) for q = 25 * k (linear interpolation)
Percentile4(costs, k) ==
    LET sorted == SortSeq(costs, LAMBDA a, b : a < b)
        pos4 == k * (Len(costs) - 1)
        lo == pos4 \div 4
        fr == pos4 % 4
    IN  IF fr = 0 THEN 4 * sorted[lo + 1]
        ELSE 4 * sorted[lo + 1] + fr * (sorted[lo + 2] - sorted[lo + 1])

\* 4 * t_max, with t_max = q75 - q25 + t_min
TMax4(costs) == Percentile4(costs, 3) - Percentile4(costs, 1) + 4 * T_MIN

\* The temperature t_max * exp(t_factor * x), t_factor = -log(t_max / t_min),
\* x = xnum / xden, kept symbolically; 0 is the initial "temp = 0"
ZeroTemp == [tmax4 |-> 0, xnum |-> 0, xden |-> 1]
Temperature(tmax4, xnum, xden) == [tmax4 |-> tmax4, xnum |-> xnum, xden |-> xden]
\* t_max >= t_min > 0 and exp(..) > 0: the temperature is 0 only if never computed
TempPositive(t) == t.tmax4 > 0

\* comparisons of computed temperatures, from t_max >= t_min (q75 >= q25) and
\* the monotonicity of exp: with r = t_min / t_max <= 1 the temperature is
\* t_max * r^x
\* temp <= t_max: r^x <= 1
TempLeqTMax(t) == t.xnum >= 0
\* temp = t_max: r^x = 1
TempEqTMax(t) == t.tmax4 = 4 * T_MIN \/ t.xnum = 0
\* temp >= t_min: r^x >= r
TempGeqTMin(t) == t.tmax4 = 4 * T_MIN \/ t.xnum <= t.xden
\* a < b for two temperatures of one phase: r < 1 and a's x above b's
TempLess(a, b) ==
    /\ a.tmax4 = b.tmax4
    /\ a.tmax4 > 4 * T_MIN
    /\ a.xnum * b.xden > b.xnum * a.xden

(* ------------------------------- state -------------------------------- *)
VARIABLES
    cls,                \* "LNSEnvironment" or "SimAnnealingLNSEnvironment"
    adaptive,           \* self.adaptive
    n_operators,        \* self.n_operators
    neighborhood_size,  \* self.neighborhood_size
    reset_percentage,   \* self.reset_percentage, in percent
    n_reheating,        \* self.n_reheating
    numpy_cost,         \* whether cost() returns a numpy float (else a Python number)
    lowers_by,          \* what the operators do to a candidate's cost (LoweringAmounts)
    operators,          \* self.operators: the identity of the list object
    operator_lists,     \* the list objects: the number of operators each holds
    clone,              \* the engine deepcopy returned, NoClone before
    performances,       \* self.performances (<<>> for None)
    solution,           \* self.solution, the incumbent
    current_cost,       \* self.current_cost
    max_steps,          \* self.max_steps
    time_limit,         \* self.time_limit
    n_steps,            \* self.n_steps
    neighborhood,       \* self.neighborhood (<<>> for None)
    neighborhood_costs, \* self.neighborhood_costs (<<>> for None)
    aliased,            \* the slots of self.neighborhood that are the object self.solution
    arg_max_steps,      \* solve's parameter max_steps
    arg_time_limit,     \* solve's parameter time_limit
    start_time,         \* solve's local start_time
    reheating_time,     \* SimAnnealing step's local reheating_time
    reheat,             \* SimAnnealing step's local reheat
    t_max4,             \* SimAnnealing step's local t_max, times 4
    temp,               \* SimAnnealing step's local temp
    criteria,           \* the dict a step returns: <<>> for {}, <<cost>> otherwise
    now,                \* time.time()
    pc,                 \* "idle", "loop", "sa_loop", "done", "raised"
    err,                \* the exception that left solve, "" if none
    result,             \* what solve returned
    sel_count,          \* observer: how often each operator was selected
    accepted,           \* observer: acceptance_criteria's result in this iteration
    draw,               \* observer: this iteration's Metropolis draw: "none", "success", "fail"
    n_accepted,         \* observer: the accepted iterations of this solve
    initial_cost,       \* observer: cost() of the initial solution of this solve
    t_computed          \* observer: how often this solve computed (t_max, t_factor)

config == <<cls, adaptive, n_operators, neighborhood_size, reset_percentage,
            n_reheating, numpy_cost, lowers_by, operators>>
copies == <<operator_lists, clone>>
sa_locals == <<reheating_time, reheat, t_max4, temp>>
observers == <<sel_count, accepted, draw>>
run_observers == <<n_accepted, initial_cost, t_computed>>
vars == <<cls, adaptive, n_operators, neighborhood_size, reset_percentage,
          n_reheating, numpy_cost, lowers_by, operators, operator_lists,
          clone, performances, solution,
          current_cost, max_steps, time_limit, n_steps, neighborhood,
          neighborhood_costs, aliased, arg_max_steps, arg_time_limit,
          start_time, reheating_time, reheat, t_max4, temp, criteria, now, pc,
          err, result, sel_count, accepted, draw, n_accepted, initial_cost,
          t_computed>>

\* no deepcopy of the engine was made
NoClone == [cls |-> "none"]

IsGreedy == cls = "LNSEnvironment"
IsSimAnnealing == cls = "SimAnnealingLNSEnvironment"

\* the state after LNSEnvironment(...) or SimAnnealingLNSEnvironment(...).
\* SimAnnealingLNSEnvironment passes no adaptive flag to its base class, so it
\* is never adaptive.  Without adaptive scores the operator index and the type
\* of cost() have no effect on the engine: such engines are taken with two
\* operators and Python costs.  The greedy engine has no reheating fields;
\* they are held at fixed values.  Arbitrary operators do not read their
\* input, so the share of the neighborhood that is reset has no effect with
\* them: it is varied with the lowering operators only.  Both budgets hold
\* the INF sentinel until solve sets them.
Init ==
    /\ cls \in {"LNSEnvironment", "SimAnnealingLNSEnvironment"}
    /\ adaptive \in BOOLEAN
    /\ IsSimAnnealing => ~adaptive
    /\ n_operators \in OperatorCounts
    /\ lowers_by \in LoweringAmounts
    /\ ~adaptive /\ lowers_by = 0 => n_operators = 2
    /\ neighborhood_size \in NeighborhoodSizes
    /\ reset_percentage \in ResetPercentages
    /\ n_reheating \in ReheatingCounts
    /\ IsGreedy => reset_percentage = 80 /\ n_reheating = 1
    /\ lowers_by = 0 => reset_percentage = 80
    /\ numpy_cost \in BOOLEAN
    /\ ~adaptive => ~numpy_cost
    /\ operators = 1
    /\ operator_lists = <<n_operators>>
    /\ clone = NoClone
    /\ performances = IF adaptive THEN [i \in 1..n_operators |-> PosInf] ELSE <<>>
    /\ solution = NoSolution
    /\ current_cost = None
    /\ max_steps = INF
    /\ time_limit = INF
    /\ n_steps = 0
    /\ neighborhood = <<>>
    /\ neighborhood_costs = <<>>
    /\ aliased = {}
    /\ arg_max_steps = None
    /\ arg_time_limit = None
    /\ start_time = 0
    /\ reheating_time = 0
    /\ reheat = FALSE
    /\ t_max4 = 0
    /\ temp = ZeroTemp
    /\ criteria = <<>>
    /\ now = 0
    /\ pc = "idle"
    /\ err = ""
    /\ result = NoSolution
    /\ sel_count = [i \in 1..n_operators |-> 0]
    /\ accepted = FALSE
    /\ draw = "none"
    /\ n_accepted = 0
    /\ initial_cost = None
    /\ t_computed = 0

(* ------------------------ LargeNeighborhoodSearch --------------------- *)
\* select_operator_pair: the indices the call can return
SelectOperatorPair ==
    IF adaptive THEN {ArgMax(performances)} ELSE 1..n_operators

(* ---------------------------- LNSEnvironment -------------------------- *)
\* solve's "x if x is not None else self.x"
SetBudget(arg, old) == IF arg # None THEN arg ELSE old

\* reset's "self.max_steps = INF" / "self.time_limit = INF"
ResetBudget(set) == INF

\* a loop condition that admits one step too many
LoopGuardOffByOne(n, elapsed, ms, tl) == n <= ms /\ elapsed < tl

\* solve's loop condition, once its operands are numbers
LoopGuard(n, elapsed, ms, tl) == n < ms /\ elapsed < tl

\* the loop condition compares a number with None (TypeError); "and" does
\* not evaluate the time test when the step test is false
GuardTypeError(n, ms, tl) == ms = None \/ (n < ms /\ tl = None)

\* "[deepcopy(self.solution) for _ in range(self.neighborhood_size)]"
FreshNeighborhood == [i \in 1..neighborhood_size |-> solution]

\* a list built from the incumbent itself, "[self.solution for _ in range(..)]"
FreshAliasesShared == 1..neighborhood_size

\* deepcopy makes new objects: no slot of the fresh list is self.solution
FreshAliases == {}

\* what destroy.multiple then repair.multiple can leave in the neighborhood:
\* the procedures are external, any candidates, unless they are the
\* deterministic pair that lowers every cost by lowers_by
OperatorResults(nb) ==
    IF lowers_by = 0 THEN [1..Len(nb) -> Solutions]
    ELSE {[i \in 1..Len(nb) |-> [cost |-> nb[i].cost - lowers_by]]}

\* the initial solutions self.initial can build: with lowering operators the
\* cost is high enough to be lowered at every step of a run
InitialCosts ==
    IF lowers_by = 0 THEN Costs ELSE {c + INF * lowers_by : c \in Costs}

\* the incumbent after the operators ran on the neighborhood nb: they work
\* on the slot objects in place, so an aliased slot is the incumbent
Explored(sol, al, nb) == IF al = {} THEN sol ELSE nb[CHOOSE i \in al : TRUE]

\* step's "self.n_steps += 1"
StepCount(n) == n + 1

\* step's delta = (current_cost - new_cost) / lns_iter_duration
Delta(cost_before, new_cost, dur) == NumpyDivide(cost_before - new_cost, dur)

\* step's update of self.performances[idx]
UpdatePerformance(p, delta) ==
    LET first == IF p = PosInf THEN delta ELSE p
    IN  Add(Scale(first, EMA_ALPHA_DEN - EMA_ALPHA_NUM, EMA_ALPHA_DEN),
            Scale(delta, EMA_ALPHA_NUM, EMA_ALPHA_DEN))

\* with Python numbers the division by a zero duration raises
DivisionRaises(dur) == adaptive /\ dur = 0 /\ ~numpy_cost

\* observer of the adaptive selections
Selected(idx) == IF adaptive THEN [sel_count EXCEPT ![idx] = @ + 1] ELSE sel_count

\* LNSEnvironment.step on the neighborhood nbIn, returning normally: operator
\* idx ran for dur ticks and left nb
BaseStep(nbIn, idx, dur, nb) ==
    /\ nb \in OperatorResults(nbIn)
    /\ ~DivisionRaises(dur)
    /\ neighborhood' = nb
    /\ now' = now + dur
    /\ neighborhood_costs' = CostsOf(nb)
    /\ performances' =
          IF adaptive
          THEN [performances EXCEPT ![idx] =
                   UpdatePerformance(@, Delta(solution.cost, MinCost(CostsOf(nb)), dur))]
          ELSE performances
    /\ n_steps' = StepCount(n_steps)
    /\ criteria' = <<MinCost(CostsOf(nb))>>
    /\ sel_count' = Selected(idx)

\* a step that counts itself before it runs the operators
StepOperatorRaisesCounted(nbIn, al, idx, dur, nb) ==
    /\ nb \in OperatorResults(nbIn)
    /\ neighborhood' = nb
    /\ aliased' = al
    /\ solution' = Explored(solution, al, nb)
    /\ now' = now + dur
    /\ sel_count' = Selected(idx)
    /\ n_steps' = n_steps + 1
    /\ pc' = "raised"
    /\ err' = "OperatorFailure"
    /\ UNCHANGED <<config, copies, sa_locals, performances, current_cost,
                   max_steps, time_limit, neighborhood_costs,
                   arg_max_steps, arg_time_limit, start_time, criteria,
                   result, accepted, draw, run_observers>>

\* LNSEnvironment.step where destroy or repair raises after dur ticks, the
\* neighborhood left as nb
StepOperatorRaises(nbIn, al, idx, dur, nb) ==
    /\ nb \in OperatorResults(nbIn)
    /\ neighborhood' = nb
    /\ aliased' = al
    /\ solution' = Explored(solution, al, nb)
    /\ now' = now + dur
    /\ sel_count' = Selected(idx)
    /\ pc' = "raised"
    /\ err' = "OperatorFailure"
    /\ UNCHANGED <<config, copies, sa_locals, performances, current_cost,
                   max_steps, time_limit, n_steps, neighborhood_costs,
                   arg_max_steps, arg_time_limit, start_time, criteria,
                   result, accepted, draw, run_observers>>

\* LNSEnvironment.step where the delta division raises ZeroDivisionError
StepDivisionRaises(nbIn, al, idx, dur, nb) ==
    /\ nb \in OperatorResults(nbIn)
    /\ DivisionRaises(dur)
    /\ neighborhood' = nb
    /\ aliased' = al
    /\ solution' = Explored(solution, al, nb)
    /\ now' = now + dur
    /\ neighborhood_costs' = CostsOf(nb)
    /\ sel_count' = Selected(idx)
    /\ pc' = "raised"
    /\ err' = "ZeroDivisionError"
    /\ UNCHANGED <<config, copies, sa_locals, performances, current_cost,
                   max_steps, time_limit, n_steps, arg_max_steps,
                   arg_time_limit, start_time, criteria, result, accepted,
                   draw, run_observers>>

\* LNSEnvironment.acceptance_criteria
GreedyAccept(cost, cur) == cost < cur

\* an acceptance that never replaces the incumbent
IncumbentKept(acc, nb, old) == old

\* solve's "if accepted: self.solution = self.neighborhood[best_idx]"
Incumbent(acc, nb, old) == IF acc THEN nb[ArgMin(CostsOf(nb))] ELSE old

\* after that assignment the slot best_idx is the incumbent itself
IncumbentAliases(acc, nb, al) == IF acc THEN {ArgMin(CostsOf(nb))} ELSE al

\* solve's "self.solution.verify()": called after an accepted update only;
\* the outcomes are that it passes (TRUE) or raises InvalidSolution (FALSE)
VerifyOutcomes(acc) == IF acc THEN {TRUE, FALSE} ELSE {TRUE}

\* a loop that swallows the failure of verify()
AfterVerifyIgnored(passed) == "loop"

\* what follows a verify() that passed or raised
AfterVerify(passed) == IF passed THEN "loop" ELSE "raised"

\* the end of one iteration of solve's loop: acceptance acc on neighborhood
\* nb, whose slots al are the incumbent old that the step left
Accept(acc, nb, old, al) ==
    /\ accepted' = acc
    /\ n_accepted' = IF acc THEN n_accepted + 1 ELSE n_accepted
    /\ solution' = Incumbent(acc, nb, old)
    /\ aliased' = IncumbentAliases(acc, nb, al)
    /\ \E passed \in VerifyOutcomes(acc) :
          /\ pc' = AfterVerify(passed)
          /\ err' = IF passed THEN err ELSE "InvalidSolution"

\* solve(instance, max_steps = ms, time_limit = tl) up to its loop; the
\* initial solution costs c0
Solve(ms, tl, c0) ==
    /\ pc = "idle"
    /\ arg_max_steps' = ms
    /\ arg_time_limit' = tl
    /\ start_time' = now
    /\ solution' = [cost |-> c0]
    /\ current_cost' = c0
    /\ initial_cost' = c0
    /\ n_accepted' = 0
    /\ t_computed' = 0
    /\ max_steps' = ResetBudget(SetBudget(ms, max_steps))
    /\ time_limit' = ResetBudget(SetBudget(tl, time_limit))
    /\ n_steps' = 0
    /\ pc' = "loop"
    /\ UNCHANGED <<config, copies, sa_locals, performances, neighborhood,
                   neighborhood_costs, aliased, criteria, now, err, result,
                   observers>>

\* the loop condition of solve raises TypeError
LoopTypeError ==
    /\ pc = "loop"
    /\ GuardTypeError(n_steps, arg_max_steps, arg_time_limit)
    /\ pc' = "raised"
    /\ err' = "TypeError"
    /\ UNCHANGED <<config, copies, sa_locals, performances, solution, current_cost,
                   max_steps, time_limit, n_steps, neighborhood,
                   neighborhood_costs, aliased, arg_max_steps, arg_time_limit,
                   start_time, criteria, now, result, observers,
                   run_observers>>

\* the loop of solve ends: "return self.solution"
Return ==
    /\ pc = "loop"
    /\ ~GuardTypeError(n_steps, arg_max_steps, arg_time_limit)
    /\ ~LoopGuard(n_steps, now - start_time, arg_max_steps, arg_time_limit)
    /\ pc' = "done"
    /\ result' = solution
    /\ UNCHANGED <<config, copies, sa_locals, performances, solution, current_cost,
                   max_steps, time_limit, n_steps, neighborhood,
                   neighborhood_costs, aliased, arg_max_steps, arg_time_limit,
                   start_time, criteria, now, err, observers, run_observers>>

\* one iteration of solve's loop in LNSEnvironment
GreedyIterate ==
    /\ pc = "loop"
    /\ IsGreedy
    /\ ~GuardTypeError(n_steps, arg_max_steps, arg_time_limit)
    /\ LoopGuard(n_steps, now - start_time, arg_max_steps, arg_time_limit)
    /\ \E idx \in SelectOperatorPair, dur \in Durations,
          nb \in OperatorResults(FreshNeighborhood) :
          \/ StepOperatorRaises(FreshNeighborhood, FreshAliases, idx, dur, nb)
          \/ StepDivisionRaises(FreshNeighborhood, FreshAliases, idx, dur, nb)
          \/ /\ BaseStep(FreshNeighborhood, idx, dur, nb)
             /\ Accept(GreedyAccept(MinCost(CostsOf(nb)), current_cost), nb,
                       Explored(solution, FreshAliases, nb), FreshAliases)
             /\ draw' = "none"
             /\ UNCHANGED <<config, copies, sa_locals, current_cost, max_steps,
                            time_limit, arg_max_steps, arg_time_limit,
                            start_time, result, initial_cost, t_computed>>

(* ---------------------- SimAnnealingLNSEnvironment -------------------- *)
\* an inner loop that stops one step early
PhaseGuardOffByOne(n, elapsed, ms, tl, nre) == n + 1 < ms /\ elapsed * nre < tl

\* the condition of step's inner loop; "elapsed < time_limit / n" on floats
PhaseGuard(n, elapsed, ms, tl, nre) == n < ms /\ elapsed * nre < tl

\* round(self.reset_percentage * self.neighborhood_size)
ResetCountRounded == (reset_percentage * neighborhood_size + 50) \div 100

\* int(self.reset_percentage * self.neighborhood_size)
ResetCount == (reset_percentage * neighborhood_size) \div 100

\* "for i in range(..): self.neighborhood[i] = deepcopy(self.solution)"
ResetLeading(nb) ==
    [i \in 1..Len(nb) |-> IF i <= ResetCount THEN solution ELSE nb[i]]

\* the slots that are still the incumbent itself after the leading ones were
\* overwritten with deep copies
ResetAliases(al) == al \ (1..ResetCount)

\* a step that recomputes the annealing parameters in every micro-iteration
ReheatTMax4Always(rh, costs, old) == TMax4(costs)

\* "if reheat: ... t_max = q75 - q25 + t_min": computed on the first
\* micro-iteration of the phase, kept afterwards
ReheatTMax4(rh, costs, old) == IF rh THEN TMax4(costs) ELSE old

\* solve's loop enters SimAnnealing step: a fresh neighborhood and the
\* locals of step before its inner loop
SAEnterStep ==
    /\ pc = "loop"
    /\ IsSimAnnealing
    /\ ~GuardTypeError(n_steps, arg_max_steps, arg_time_limit)
    /\ LoopGuard(n_steps, now - start_time, arg_max_steps, arg_time_limit)
    /\ neighborhood' = FreshNeighborhood
    /\ aliased' = FreshAliases
    /\ reheating_time' = now
    /\ reheat' = TRUE
    /\ t_max4' = 0
    /\ temp' = ZeroTemp
    /\ criteria' = <<>>
    /\ accepted' = FALSE
    /\ draw' = "none"
    /\ pc' = "sa_loop"
    /\ UNCHANGED <<config, copies, performances, solution, current_cost, max_steps,
                   time_limit, n_steps, neighborhood_costs, arg_max_steps,
                   arg_time_limit, start_time, now, err, result, sel_count,
                   run_observers>>

\* one micro-iteration of SimAnnealing step's inner loop
SAMicroIteration ==
    /\ pc = "sa_loop"
    /\ PhaseGuard(n_steps, now - reheating_time, max_steps, time_limit, n_reheating)
    /\ \E idx \in SelectOperatorPair, dur \in Durations,
          nb \in OperatorResults(ResetLeading(neighborhood)) :
          \/ StepOperatorRaises(ResetLeading(neighborhood),
                                ResetAliases(aliased), idx, dur, nb)
          \/ /\ BaseStep(ResetLeading(neighborhood), idx, dur, nb)
             /\ aliased' = ResetAliases(aliased)
             /\ solution' = Explored(solution, ResetAliases(aliased), nb)
             /\ t_max4' = ReheatTMax4(reheat, CostsOf(nb), t_max4)
             /\ t_computed' = IF reheat THEN t_computed + 1 ELSE t_computed
             /\ reheat' = FALSE
             /\ temp' = Temperature(t_max4', (now' - reheating_time) * n_reheating,
                                    time_limit)
             /\ UNCHANGED <<config, copies, current_cost, max_steps,
                            time_limit, arg_max_steps, arg_time_limit,
                            start_time, reheating_time, pc, err, result,
                            accepted, draw, n_accepted, initial_cost>>

\* the outcomes of "np.random.rand() < math.exp(-(cost - cur) / temp)" when
\* the candidate is not better: certain for a tie (exp(0) = 1), open otherwise
MetropolisDraws(cost, cur) == IF cost = cur THEN {"success"} ELSE {"success", "fail"}

\* SimAnnealingLNSEnvironment.acceptance_criteria with the draw's outcome
MetropolisAccept(cost, cur, drawn) == cost < cur \/ drawn = "success"

\* step's inner loop ends, step returns {**criteria, "temperature": temp}
\* (its locals go out of scope) and solve evaluates acceptance_criteria on it
SAExitStep ==
    /\ pc = "sa_loop"
    /\ ~PhaseGuard(n_steps, now - reheating_time, max_steps, time_limit, n_reheating)
    /\ \/ /\ criteria = <<>>
          /\ pc' = "raised"
          /\ err' = "ValueError"
          /\ UNCHANGED <<solution, aliased, accepted, draw, n_accepted>>
       \/ /\ criteria # <<>>
          /\ TempPositive(temp)
          /\ \E drawn \in (IF criteria[1] < current_cost THEN {"none"}
                           ELSE MetropolisDraws(criteria[1], current_cost)) :
                /\ draw' = drawn
                /\ Accept(MetropolisAccept(criteria[1], current_cost, drawn),
                          neighborhood, solution, aliased)
    /\ reheating_time' = 0
    /\ reheat' = FALSE
    /\ t_max4' = 0
    /\ temp' = ZeroTemp
    /\ UNCHANGED <<config, copies, performances, current_cost, max_steps,
                   time_limit, n_steps, neighborhood, neighborhood_costs,
                   arg_max_steps, arg_time_limit, start_time, criteria, now,
                   result, sel_count, initial_cost, t_computed>>

\* LNSEnvironment.__deepcopy__, inherited by SimAnnealingLNSEnvironment: a
\* new LNSEnvironment built by the constructor from self.operators (the list
\* object itself), self.neighborhood_size, self.initial and self.adaptive.
\* A caller copies an engine that is not inside solve.
DeepCopy ==
    /\ pc \in {"idle", "done", "raised"}
    /\ clone = NoClone
    /\ clone' = [cls |-> "LNSEnvironment",
                 operators |-> operators,
                 n_operators |-> operator_lists[operators],
                 neighborhood_size |-> neighborhood_size,
                 adaptive |-> adaptive,
                 reset_percentage |-> None,
                 n_reheating |-> None,
                 performances |->
                    IF adaptive
                    THEN [i \in 1..operator_lists[operators] |-> PosInf]
                    ELSE <<>>,
                 solution |-> NoSolution,
                 n_steps |-> 0]
    /\ UNCHANGED <<config, operator_lists, performances, solution,
                   current_cost, max_steps, time_limit, n_steps, neighborhood,
                   neighborhood_costs, aliased, arg_max_steps, arg_time_limit,
                   start_time, sa_locals, criteria, now, pc, err, result,
                   observers, run_observers>>

\* the caller changes the clone: "state" for a reset and a step on it (its
\* incumbent, step counter and scores), "operators" for
\* clone.operators.append(..)
CloneMutate(kind) ==
    /\ clone # NoClone
    /\ \/ /\ kind = "state"
          /\ clone.n_steps = 0
          /\ clone' = [clone EXCEPT
                          !.n_steps = 1,
                          !.solution = [cost |-> 0],
                          !.performances =
                              IF clone.adaptive THEN [@ EXCEPT ![1] = Fin(0, 1)] ELSE @]
          /\ UNCHANGED operator_lists
       \/ /\ kind = "operators"
          /\ operator_lists[clone.operators] = clone.n_operators
          /\ operator_lists' = [operator_lists EXCEPT ![clone.operators] = @ + 1]
          /\ UNCHANGED clone
    /\ UNCHANGED <<config, performances, solution, current_cost, max_steps,
                   time_limit, n_steps, neighborhood, neighborhood_costs,
                   aliased, arg_max_steps, arg_time_limit, start_time,
                   sa_locals, criteria, now, pc, err, result, observers,
                   run_observers>>

Next ==
    \/ \E ms \in Budgets, tl \in Budgets, c0 \in InitialCosts : Solve(ms, tl, c0)
    \/ LoopTypeError
    \/ Return
    \/ GreedyIterate
    \/ SAEnterStep
    \/ SAMicroIteration
    \/ SAExitStep

Spec == Init /\ [][Next]_vars

\* solve runs on one thread: a step that can be taken is taken
FairSpec == Spec /\ WF_vars(Next)

\* LNSEnvironment alone: the greedy engine
InitGreedy == Init /\ IsGreedy

NextGreedy ==
    \/ \E ms \in Budgets, tl \in Budgets, c0 \in InitialCosts : Solve(ms, tl, c0)
    \/ LoopTypeError
    \/ Return
    \/ GreedyIterate

SpecGreedy == InitGreedy /\ [][NextGreedy]_vars

FairSpecGreedy == SpecGreedy /\ WF_vars(NextGreedy)

\* SimAnnealingLNSEnvironment alone: the simulated-annealing engine
InitSimAnnealing == Init /\ IsSimAnnealing

NextSimAnnealing ==
    \/ \E ms \in Budgets, tl \in Budgets, c0 \in InitialCosts : Solve(ms, tl, c0)
    \/ LoopTypeError
    \/ Return
    \/ SAEnterStep
    \/ SAMicroIteration
    \/ SAExitStep

SpecSimAnnealing == InitSimAnnealing /\ [][NextSimAnnealing]_vars

\* the engines with a caller that deep-copies them
NextCopying ==
    \/ Next
    \/ DeepCopy
    \/ \E kind \in {"state", "operators"} : CloneMutate(kind)

SpecCopying == Init /\ [][NextCopying]_vars

(* ------------------------------- claims ------------------------------- *)
\* solve is at its loop condition: after reset, or after an iteration's
\* acceptance decision
AtIterationBoundary == pc \in {"loop", "done"}

\* the step just taken is one whole iteration of the greedy loop
GreedyIterationDone ==
    IsGreedy /\ pc = "loop" /\ n_steps' = n_steps + 1

\* the step just taken is the acceptance decision that ends a phase
PhaseDecided ==
    IsSimAnnealing /\ pc = "sa_loop" /\ pc' \in {"loop", "raised"} /\ criteria # <<>>

\* C1: at every iteration boundary of solve the recorded incumbent cost
\* current_cost equals cost() of the incumbent solution.
C1_CurrentCostIsIncumbentCost ==
    AtIterationBoundary => current_cost = solution.cost

\* C2: under greedy acceptance the incumbent's cost never increases from one
\* iteration of solve to the next.
C2_GreedyCostNonIncreasing ==
    [][GreedyIterationDone => solution'.cost <= solution.cost]_vars

\* C3: a greedy iteration replaces the incumbent exactly when bestCost is
\* strictly below the incumbent's cost (ties rejected), and a rejection leaves
\* the incumbent unchanged.
C3_GreedyAcceptsIffStrictlyBetter ==
    [][GreedyIterationDone =>
          /\ accepted' <=> criteria'[1] < solution.cost
          /\ ~accepted' => solution' = solution]_vars

\* C4: greedy solve terminates: the loop is never stuck, every pass through
\* it runs only while n_steps < maxSteps and elapsed < timeLimit and adds
\* exactly one to the step counter, the counter never exceeds maxSteps (so
\* at most maxSteps passes happen), and when the budget is exhausted solve
\* returns the incumbent.
C4_GreedySolveTerminates ==
    /\ [](pc = "loop" => ENABLED NextGreedy)
    /\ [][pc = "loop" /\ pc' = "loop" =>
             /\ n_steps' = n_steps + 1
             /\ n_steps < arg_max_steps
             /\ now - start_time < arg_time_limit]_vars
    /\ [](arg_max_steps # None => n_steps <= arg_max_steps)
    /\ [](pc = "done" =>
             /\ result = solution
             /\ n_steps >= arg_max_steps \/ now - start_time >= arg_time_limit)

\* a greedy solve that used up a step budget of two or more and returned
C4_Witness ==
    /\ IsGreedy /\ pc = "done" /\ result = solution
    /\ n_steps = arg_max_steps /\ n_steps >= 2

\* C5: in the simulated-annealing engine the step counter never exceeds the
\* maxSteps given to solve.
C5_StepBudgetRespected ==
    IsSimAnnealing /\ arg_max_steps # None => n_steps <= arg_max_steps

\* C6: a micro-iteration of a reheating phase starts only while the time
\* elapsed in the phase is below timeLimit / n_reheating, timeLimit being the
\* value passed to solve.
C6_PhaseEndsAtPhaseLength ==
    [][IsSimAnnealing /\ pc = "sa_loop" /\ n_steps' # n_steps =>
          (now - reheating_time) * n_reheating < arg_time_limit]_vars

\* C7: in adaptive mode every operator is selected once before any operator
\* is selected a second time.
C7_AllOperatorsTriedFirst ==
    adaptive =>
        ((\E i \in 1..n_operators : sel_count[i] >= 2) =>
         (\A j \in 1..n_operators : sel_count[j] >= 1))

\* C8: under simulated annealing the incumbent's cost increases only when
\* the Metropolis draw succeeded, and a candidate that is not strictly better
\* than the incumbent is never accepted without a successful draw.
C8_WorseOnlyByMetropolisDraw ==
    [][PhaseDecided =>
          /\ solution'.cost > solution.cost => draw' = "success"
          /\ accepted' /\ criteria[1] >= solution.cost => draw' = "success"]_vars

\* C9: when verify() fails on a newly accepted incumbent the failure leaves
\* solve at once: the failure follows an acceptance, no further step of solve
\* can be taken, and solve returns nothing.
C9_InvalidSolutionIsFatal ==
    err = "InvalidSolution" =>
        /\ pc = "raised"
        /\ accepted
        /\ result = NoSolution
        /\ ~ENABLED Next

\* verify() failed on an incumbent accepted after at least two steps
C9_Witness ==
    err = "InvalidSolution" /\ pc = "raised" /\ n_steps >= 2 /\ accepted

\* C10: when destroy or repair raises during step the failure leaves solve
\* with the incumbent, the recorded incumbent cost, the step counter and the
\* adaptive scores as they were before that iteration, and nothing accepted
\* or returned.
C10_OperatorFailureLeavesState ==
    /\ [][err' = "OperatorFailure" /\ err = "" =>
             /\ pc' = "raised"
             /\ solution' = solution
             /\ current_cost' = current_cost
             /\ n_steps' = n_steps
             /\ performances' = performances
             /\ accepted' = accepted
             /\ result' = NoSolution]_vars
    /\ [](err = "OperatorFailure" => pc = "raised" /\ ~ENABLED Next)

\* an operator raised in a later iteration of an adaptive run whose scores
\* had already been updated
C10_Witness ==
    /\ err = "OperatorFailure" /\ pc = "raised"
    /\ n_steps >= 1 /\ adaptive
    /\ \E i \in 1..n_operators : performances[i] # PosInf

\* C16: in adaptive mode the score of an operator that has been sampled is a
\* finite number in every state solve can reach, also when the measured
\* duration of the iteration is zero.
C16_SampledScoreIsFinite ==
    adaptive /\ AtIterationBoundary =>
        \A i \in 1..n_operators : sel_count[i] >= 1 => IsFinite(performances[i])

\* C20: a solve called with max_steps or time_limit omitted (None) treats the
\* omitted budget as unbounded and does not raise on it.
C20_OmittedBudgetIsUnbounded ==
    pc # "idle" /\ (arg_max_steps = None \/ arg_time_limit = None) =>
        err # "TypeError"

\* C15: an adaptive step that returns changes only the score of the operator
\* it selected: to exactly delta when this is the operator's first sample, to
\* old * (1 - 0.2) + delta * 0.2 otherwise; every other score is unchanged.
C15_ScoreUpdateRule ==
    [][GreedyIterationDone /\ adaptive =>
          \E idx \in 1..n_operators :
             LET delta == Delta(solution.cost, criteria'[1], now' - now)
             IN  /\ sel_count'[idx] = sel_count[idx] + 1
                 /\ performances'[idx] =
                       IF sel_count[idx] = 0 THEN delta
                       ELSE Add(Scale(performances[idx],
                                      EMA_ALPHA_DEN - EMA_ALPHA_NUM, EMA_ALPHA_DEN),
                                Scale(delta, EMA_ALPHA_NUM, EMA_ALPHA_DEN))
                 /\ \A j \in 1..n_operators \ {idx} :
                       performances'[j] = performances[j]]_vars

\* the scenario of one operator pair that lowers the cost of the single
\* candidate by the fixed amount lowers_by
SingleLoweringOperator ==
    IsGreedy /\ lowers_by > 0 /\ neighborhood_size = 1 /\ n_operators = 1

\* C13: with neighborhood size 1 and a single deterministic operator pair
\* that lowers the cost by a fixed d > 0, after k accepted iterations of the
\* greedy solve the incumbent costs initialCost - k * d.
C13_CostAfterAcceptedIterations ==
    SingleLoweringOperator /\ AtIterationBoundary =>
        solution.cost = initial_cost - n_accepted * lowers_by

\* such a run returned after two accepted iterations that lowered the cost by 2
C13_Witness ==
    /\ SingleLoweringOperator /\ pc = "done"
    /\ lowers_by = 2 /\ n_accepted = 2
    /\ result.cost = initial_cost - 4

\* the step just taken is one micro-iteration of a SimAnnealing phase, or the
\* failure of its operators
MicroIterationDone ==
    IsSimAnnealing /\ pc = "sa_loop" /\ (n_steps' = n_steps + 1 \/ err' = "OperatorFailure")

\* C17: during every step, greedy or simulated annealing, the neighborhood
\* holds exactly neighborhood_size solutions, none of them is the incumbent
\* object itself, and destroy/repair change neither the incumbent nor its
\* recorded cost: the incumbent changes only by an acceptance.
C17_ExplorationLeavesIncumbent ==
    /\ [](neighborhood # <<>> => Len(neighborhood) = neighborhood_size)
    /\ [](pc = "sa_loop" => aliased = {})
    /\ [][MicroIterationDone =>
             /\ solution' = solution
             /\ current_cost' = current_cost
             /\ aliased' = {}]_vars
    /\ [][GreedyIterationDone =>
             /\ ~accepted' => solution' = solution /\ aliased' = {}
             /\ accepted' => solution' = neighborhood'[ArgMin(neighborhood_costs')]
             /\ current_cost' = current_cost]_vars
    /\ [][err' = "OperatorFailure" /\ err = "" =>
             solution' = solution /\ aliased' = {}]_vars

\* a SimAnnealing phase after two micro-iterations on a neighborhood of two
\* whose candidates all differ from the incumbent
C17_Witness ==
    /\ IsSimAnnealing /\ pc = "sa_loop" /\ ~reheat
    /\ neighborhood_size = 2 /\ Len(neighborhood) = 2
    /\ n_steps >= 2
    /\ \A i \in 1..2 : neighborhood[i].cost # solution.cost
    /\ solution.cost = initial_cost

\* C18: at the start of every micro-iteration of a SimAnnealing phase the
\* leading floor(reset_percentage * neighborhood_size) slots are overwritten
\* with copies of the incumbent and the trailing slots keep the candidates of
\* the previous micro-iteration; with reset_percentage = 1.0 every slot is
\* reset.  Seen through operators that lower each slot's cost by lowers_by.
C18_LeadingSlotsReset ==
    [][IsSimAnnealing /\ pc = "sa_loop" /\ n_steps' = n_steps + 1 /\ lowers_by > 0 =>
          /\ \A i \in 1..neighborhood_size :
                neighborhood'[i].cost =
                   (IF 100 * i <= reset_percentage * neighborhood_size
                    THEN solution.cost
                    ELSE neighborhood[i].cost) - lowers_by
          /\ reset_percentage = 100 =>
                \A i \in 1..neighborhood_size :
                   neighborhood'[i].cost = solution.cost - lowers_by]_vars

\* after two micro-iterations of a phase with reset_percentage 0.8 on a
\* neighborhood of two: slot 0 restarted from the incumbent, slot 1 was
\* lowered twice
C18_Witness ==
    /\ IsSimAnnealing /\ pc = "sa_loop" /\ ~reheat /\ lowers_by > 0
    /\ neighborhood_size = 2 /\ reset_percentage = 80 /\ Len(neighborhood) = 2
    /\ neighborhood[1].cost = solution.cost - lowers_by
    /\ neighborhood[2].cost = solution.cost - 2 * lowers_by

\* C12: the annealing parameters (t_max, t_factor) are computed exactly once
\* per reheating phase, on its first micro-iteration, and stay fixed for the
\* rest of the phase; with n_reheating = 1 (whatever the reset percentage,
\* 1.0 included) exactly one pair is computed in a whole solve run.
C12_ParametersOncePerPhase ==
    /\ [][IsSimAnnealing /\ pc = "sa_loop" /\ n_steps' = n_steps + 1 =>
             /\ reheat =>
                   /\ t_computed' = t_computed + 1
                   /\ t_max4' = TMax4(neighborhood_costs')
             /\ ~reheat =>
                   /\ t_computed' = t_computed
                   /\ t_max4' = t_max4
             /\ ~reheat']_vars
    /\ [](pc = "sa_loop" => (reheat <=> criteria = <<>>))
    /\ [](IsSimAnnealing /\ n_reheating = 1 => t_computed <= 1)
    /\ [](IsSimAnnealing /\ n_reheating = 1 /\ pc = "done" => t_computed = 1)

\* a solve with n_reheating = 1 and reset_percentage = 1.0 that returned
\* after three micro-iterations and one computation of the parameters
C12_Witness ==
    /\ IsSimAnnealing /\ n_reheating = 1 /\ reset_percentage = 100
    /\ pc = "done" /\ n_steps = 3 /\ t_computed = 1

AcceptanceEvaluated ==
    IsSimAnnealing /\ pc = "sa_loop" /\ pc' # "sa_loop" /\ err' # "OperatorFailure"

\* C19: whenever the simulated-annealing acceptance is evaluated, the step
\* result carries bestCost and a strictly positive temperature computed from
\* the parameters of that phase: it is never evaluated with the initial
\* temperature 0 or on the result of a phase in which no micro-iteration ran.
C19_AcceptanceHasTemperature ==
    /\ [][AcceptanceEvaluated =>
             /\ criteria # <<>>
             /\ criteria[1] = MinCost(neighborhood_costs)
             /\ ~reheat
             /\ t_max4 >= 4 * T_MIN
             /\ temp = Temperature(t_max4, (now - reheating_time) * n_reheating,
                                   time_limit)
             /\ TempPositive(temp)
             /\ err' # "ValueError"]_vars
    /\ [](err # "ValueError")

\* the acceptance of a second phase took a worse candidate on a Metropolis draw
C19_Witness ==
    /\ IsSimAnnealing /\ pc = "loop" /\ t_computed = 2
    /\ accepted /\ draw = "success" /\ criteria[1] > current_cost

\* the step just taken changed the clone or a list it holds
CloneMutated ==
    clone # NoClone /\ (clone' # clone \/ operator_lists' # operator_lists)

\* C11: a deep copy of an engine, LNSEnvironment or
\* SimAnnealingLNSEnvironment, has the configuration of the original (class
\* and with it the step and acceptance behaviour, operators, neighborhood
\* size, adaptive flag, reheating parameters) and state of its own: no change
\* made to the clone's incumbent, step counter, scores or operator list
\* changes the original.
C11_CloneIsIndependent ==
    /\ [](clone # NoClone =>
             /\ clone.cls = cls
             /\ clone.n_operators = n_operators
             /\ clone.neighborhood_size = neighborhood_size
             /\ clone.adaptive = adaptive
             /\ IsSimAnnealing =>
                   /\ clone.reset_percentage = reset_percentage
                   /\ clone.n_reheating = n_reheating)
    /\ [][CloneMutated =>
             /\ operator_lists'[operators] = operator_lists[operators]
             /\ <<solution, n_steps, performances>>' =
                   <<solution, n_steps, performances>>]_vars

====
